---- MODULE Spec2Model ----
(***************************************************************************)
(* Model of src/src/config.rs: the resolution of a Config from the         *)
(* command-line options (cli::Opt), the environment and the terminal       *)
(* geometry, as performed by `impl From<cli::Opt> for Config`.             *)
(*                                                                         *)
(* One run of Config::from is one behaviour: Init fixes the options, each  *)
(* action is one step of the function body in source order, and the run    *)
(* ends returned (a Config), exited (process::exit(1)) or panicked.        *)
(* Environment variables and the terminal size are drawn where the code    *)
(* reads them.                                                             *)
(*                                                                         *)
(* An Option<T> is a sequence: <<>> is None and <<x>> is Some(x).  A local *)
(* of the function that is not yet assigned is None.                       *)
(***************************************************************************)
EXTENDS Integers, Sequences, FiniteSets, TLC

VARIABLES
    opt,                        \* cli::Opt, the argument of Config::from
    pc,                         \* the position in Config::from
    exit_status,                \* Some(status) once the process has ended abnormally
    stderr,                     \* what eprintln! (or the panic handler) has written
    paging_mode,                \* let paging_mode        (line 158)
    colorterm,                  \* Some(env COLORTERM) once read (line 147)
    true_color,                 \* let true_color         (line 171)
    term_cols,                  \* Some(Term::stdout().size().1) once read (line 185)
    available_terminal_width,   \* let available_terminal_width (line 185)
    decorations_width,          \* let decorations_width  (line 186)
    background_color_extends_to_terminal_width,   \* (line 186)
    bat_theme,                  \* Some(env BAT_THEME) once read (line 199)
    is_light_mode,              \* let is_light_mode      (line 200)
    syntax_theme_name,          \* let syntax_theme_name  (line 200)
    hunk_styles,                \* the seven styles of make_hunk_styles (line 207)
    syntax_theme,               \* let syntax_theme       (line 231)
    config                      \* Some(Config) once Config::from has returned

vars == <<opt, pc, exit_status, stderr, paging_mode, colorterm, true_color,
          term_cols, available_terminal_width, decorations_width,
          background_color_extends_to_terminal_width, bat_theme, is_light_mode,
          syntax_theme_name, hunk_styles, syntax_theme, config>>

None == <<>>

Some(x) == <<x>>

IsSome(o) == o # <<>>

Unwrap(o) == o[1]

(***************************************************************************)
(* Bounds of the model.                                                    *)
(***************************************************************************)
\* Terminal column counts 0..MaxCols are explored.
MaxCols == 3

\* Numeric --width values "0".."MaxWidth" are explored.
MaxWidth == 3

(***************************************************************************)
(* Collaborators of config.rs: the theme catalogue, the theme names, the   *)
(* parsers of the standard library and of the regex crate.                 *)
(***************************************************************************)
\* assets.theme_set.themes: the names of the catalogue's themes.
ThemeCatalogue == {"GitHub", "1337", "Monokai Extended"}

\* syntax_theme::LIGHT_THEMES: the catalogue themes classified Light.
LIGHT_THEMES == {"GitHub"}

DEFAULT_LIGHT_THEME == "GitHub"

DEFAULT_DARK_THEME == "Monokai Extended"

\* syntax_theme::is_light_theme
is_light_theme(theme) == theme \in LIGHT_THEMES

\* syntax_theme::is_no_syntax_highlighting_theme_name: "none" in any case.
is_no_syntax_highlighting_theme_name(theme_name) == theme_name \in {"none", "None"}

\* A name the resolver may take from the environment: the sentinel or a
\* catalogue entry ("" and "<@@@@@>" fall back to the default in the test).
valid_theme_name_or_none(theme_name, themes) ==
    IF IsSome(theme_name)
       /\ (is_no_syntax_highlighting_theme_name(Unwrap(theme_name))
           \/ Unwrap(theme_name) \in themes)
    THEN theme_name
    ELSE None

\* syntax_theme::get_is_light_mode_and_theme_name: <<is_light_mode, theme name>>.
get_is_light_mode_and_theme_name(theme_arg, bat_theme_env_var, light_mode_arg, themes) ==
    IF IsSome(theme_arg)
    THEN LET name == Unwrap(theme_arg) IN
         IF is_no_syntax_highlighting_theme_name(name) \/ name \notin themes
         THEN <<light_mode_arg, name>>
         ELSE <<is_light_theme(name), name>>
    ELSE LET env_name == valid_theme_name_or_none(bat_theme_env_var, themes) IN
         IF IsSome(env_name)
         THEN <<light_mode_arg \/ is_light_theme(Unwrap(env_name)), Unwrap(env_name)>>
         ELSE IF light_mode_arg
              THEN <<TRUE, DEFAULT_LIGHT_THEME>>
              ELSE <<FALSE, DEFAULT_DARK_THEME>>

\* The decimal strings str::parse::<usize> accepts, within the model's range.
UsizeStrings == {ToString(n) : n \in 0..MaxWidth}

\* width.parse::<usize>(): Some(n) for a decimal string, None for Err(_).
ParseUsize(s) ==
    IF s \in UsizeStrings
    THEN Some(CHOOSE n \in 0..MaxWidth : ToString(n) = s)
    ELSE None

\* Regex::new(pattern).is_ok(): "([" is the malformed pattern of the model.
RegexIsValid(pattern) == pattern # "(["

Min(a, b) == IF a <= b THEN a ELSE b

\* The u16 of Term::size(): 2^16 values.
U16Modulus == 65536

\* u16 subtraction as a release build computes it (overflow checks off).
WrappingSubU16(a, b) == (a - b) % U16Modulus

(***************************************************************************)
(* Styles.  A colour is a tuple of strings: a colour named in a style      *)
(* spec, quantized for the palette in use, or one of the default           *)
(* background colours of crate::color.  A style spec names at most one     *)
(* foreground and one background colour.                                   *)
(***************************************************************************)
BoolStr(b) == IF b THEN "true" ELSE "false"

\* color::color_from_rgb_or_ansi_code(name, true_color)
NamedColor(name, is_true_color) == <<"named", name, BoolStr(is_true_color)>>

\* color::get_minus_background_color_default(is_light_mode, is_true_color)
get_minus_background_color_default(light, is_true_color) ==
    <<"default", "minus", BoolStr(light), BoolStr(is_true_color)>>

\* color::get_minus_emph_background_color_default(is_light_mode, is_true_color)
get_minus_emph_background_color_default(light, is_true_color) ==
    <<"default", "minus_emph", BoolStr(light), BoolStr(is_true_color)>>

\* color::get_plus_background_color_default(is_light_mode, is_true_color)
get_plus_background_color_default(light, is_true_color) ==
    <<"default", "plus", BoolStr(light), BoolStr(is_true_color)>>

\* color::get_plus_emph_background_color_default(is_light_mode, is_true_color)
get_plus_emph_background_color_default(light, is_true_color) ==
    <<"default", "plus_emph", BoolStr(light), BoolStr(is_true_color)>>

\* Style::from_str(style_string, foreground_default, background_default,
\*                 decoration_style_string, true_color, is_emph):
\* a colour the spec names wins, an omitted one takes the caller's default.
Style_from_str(style_string, foreground_default, background_default, is_true_color, is_emph) ==
    [foreground |-> IF IsSome(style_string.foreground)
                    THEN Some(NamedColor(Unwrap(style_string.foreground), is_true_color))
                    ELSE foreground_default,
     background |-> IF IsSome(style_string.background)
                    THEN Some(NamedColor(Unwrap(style_string.background), is_true_color))
                    ELSE background_default,
     is_emph    |-> is_emph]

(***************************************************************************)
(* The functions of config.rs.                                             *)
(***************************************************************************)
\* Mutant of check_validity: the test of `opt.light && opt.dark` is missing.
check_validity_without_flag_conflict(o, themes) ==
    IF IsSome(o.syntax_theme)
       /\ ~is_no_syntax_highlighting_theme_name(Unwrap(o.syntax_theme))
       /\ Unwrap(o.syntax_theme) \in themes
    THEN LET is_light_syntax_theme == is_light_theme(Unwrap(o.syntax_theme)) IN
         IF is_light_syntax_theme /\ o.dark
         THEN Some("is a light syntax theme, but you supplied --dark.")
         ELSE IF ~is_light_syntax_theme /\ o.light
              THEN Some("is a dark syntax theme, but you supplied --light.")
              ELSE None
    ELSE None

\* Mutant of check_validity: `else if is_light_syntax_theme && opt.light`,
\* the negation of the second test lost.
check_validity_negation_lost(o, themes) ==
    IF o.light /\ o.dark
    THEN Some("--light and --dark cannot be used together.")
    ELSE IF IsSome(o.syntax_theme)
            /\ ~is_no_syntax_highlighting_theme_name(Unwrap(o.syntax_theme))
            /\ Unwrap(o.syntax_theme) \in themes
         THEN LET is_light_syntax_theme == is_light_theme(Unwrap(o.syntax_theme)) IN
              IF is_light_syntax_theme /\ o.dark
              THEN Some("is a light syntax theme, but you supplied --dark.")
              ELSE IF is_light_syntax_theme /\ o.light
                   THEN Some("is a dark syntax theme, but you supplied --light.")
                   ELSE None
         ELSE None

\* _check_validity: None when it returns, Some(message) when it prints the
\* message and exits with status 1.
check_validity(o, themes) ==
    IF o.light /\ o.dark
    THEN Some("--light and --dark cannot be used together.")
    ELSE IF IsSome(o.syntax_theme)
            /\ ~is_no_syntax_highlighting_theme_name(Unwrap(o.syntax_theme))
         THEN IF Unwrap(o.syntax_theme) \notin themes
              THEN None
              ELSE LET is_light_syntax_theme == is_light_theme(Unwrap(o.syntax_theme)) IN
                   IF is_light_syntax_theme /\ o.dark
                   THEN Some("is a light syntax theme, but you supplied --dark.")
                   ELSE IF ~is_light_syntax_theme /\ o.light
                        THEN Some("is a dark syntax theme, but you supplied --light.")
                        ELSE None
         ELSE None

\* Mutant of is_truecolor_terminal: only "truecolor" is recognised.
is_truecolor_terminal_one_value(colorterm_var) ==
    IF IsSome(colorterm_var)
    THEN Unwrap(colorterm_var) = "truecolor"
    ELSE FALSE

\* is_truecolor_terminal, on the value env::get_env_var("COLORTERM") returned.
is_truecolor_terminal(colorterm_var) ==
    IF IsSome(colorterm_var)
    THEN Unwrap(colorterm_var) = "truecolor" \/ Unwrap(colorterm_var) = "24bit"
    ELSE FALSE

\* The match on opt.paging_mode: Some(PagingMode), or None for the fatal arm.
match_paging_mode(s) ==
    CASE s = "always" -> Some("Always")
      [] s = "never"  -> Some("Never")
      [] s = "auto"   -> Some("QuitIfOneScreen")
      [] OTHER        -> None

\* The match on opt.true_color: Some(bool), or None for the fatal arm.
match_true_color(s, colorterm_var) ==
    CASE s = "always" -> Some(TRUE)
      [] s = "never"  -> Some(FALSE)
      [] s = "auto"   -> Some(is_truecolor_terminal(colorterm_var))
      [] OTHER        -> None

Width_Variable == [tag |-> "Variable"]

Width_Fixed(n) == [tag |-> "Fixed", value |-> n]

\* The match on opt.width: Some(<<decorations_width, fill>>), or None when the
\* width does not parse (the fatal closure of unwrap_or_else).
match_width(width, available) ==
    IF width = Some("variable")
    THEN Some(<<Width_Variable, FALSE>>)
    ELSE IF IsSome(width)
         THEN LET parsed == ParseUsize(Unwrap(width)) IN
              IF IsSome(parsed)
              THEN Some(<<Width_Fixed(Min(Unwrap(parsed), available)), TRUE>>)
              ELSE None
         ELSE Some(<<Width_Fixed(available), TRUE>>)

\* Mutant of make_hunk_styles: minus_emph_style is given the default
\* background of minus_style (the call copied from the one above it).
make_hunk_styles_emph_default_copied(o, light, is_true_color) ==
    LET minus_style ==
            Style_from_str(o.minus_style, None,
                Some(get_minus_background_color_default(light, is_true_color)),
                is_true_color, FALSE)
        minus_emph_style ==
            Style_from_str(o.minus_emph_style, None,
                Some(get_minus_background_color_default(light, is_true_color)),
                is_true_color, TRUE)
        minus_non_emph_style ==
            Style_from_str(o.minus_non_emph_style,
                minus_style.foreground, minus_style.background,
                is_true_color, FALSE)
        zero_style ==
            Style_from_str(o.zero_style, None, None, is_true_color, FALSE)
        plus_style ==
            Style_from_str(o.plus_style, None,
                Some(get_plus_background_color_default(light, is_true_color)),
                is_true_color, FALSE)
        plus_emph_style ==
            Style_from_str(o.plus_emph_style, None,
                Some(get_plus_emph_background_color_default(light, is_true_color)),
                is_true_color, TRUE)
        plus_non_emph_style ==
            Style_from_str(o.plus_non_emph_style,
                plus_style.foreground, plus_style.background,
                is_true_color, FALSE)
    IN  [minus_style          |-> minus_style,
         minus_emph_style     |-> minus_emph_style,
         minus_non_emph_style |-> minus_non_emph_style,
         zero_style           |-> zero_style,
         plus_style           |-> plus_style,
         plus_emph_style      |-> plus_emph_style,
         plus_non_emph_style  |-> plus_non_emph_style]

\* Mutant of make_hunk_styles: minus_non_emph_style falls back on the
\* colours of minus_emph_style, the style resolved just before it.
make_hunk_styles_non_emph_from_emph(o, light, is_true_color) ==
    LET minus_style ==
            Style_from_str(o.minus_style, None,
                Some(get_minus_background_color_default(light, is_true_color)),
                is_true_color, FALSE)
        minus_emph_style ==
            Style_from_str(o.minus_emph_style, None,
                Some(get_minus_emph_background_color_default(light, is_true_color)),
                is_true_color, TRUE)
        minus_non_emph_style ==
            Style_from_str(o.minus_non_emph_style,
                minus_emph_style.foreground, minus_emph_style.background,
                is_true_color, FALSE)
        zero_style ==
            Style_from_str(o.zero_style, None, None, is_true_color, FALSE)
        plus_style ==
            Style_from_str(o.plus_style, None,
                Some(get_plus_background_color_default(light, is_true_color)),
                is_true_color, FALSE)
        plus_emph_style ==
            Style_from_str(o.plus_emph_style, None,
                Some(get_plus_emph_background_color_default(light, is_true_color)),
                is_true_color, TRUE)
        plus_non_emph_style ==
            Style_from_str(o.plus_non_emph_style,
                plus_style.foreground, plus_style.background,
                is_true_color, FALSE)
    IN  [minus_style          |-> minus_style,
         minus_emph_style     |-> minus_emph_style,
         minus_non_emph_style |-> minus_non_emph_style,
         zero_style           |-> zero_style,
         plus_style           |-> plus_style,
         plus_emph_style      |-> plus_emph_style,
         plus_non_emph_style  |-> plus_non_emph_style]

\* make_hunk_styles: the styles in the order the function resolves them.
make_hunk_styles(o, light, is_true_color) ==
    LET minus_style ==
            Style_from_str(o.minus_style, None,
                Some(get_minus_background_color_default(light, is_true_color)),
                is_true_color, FALSE)
        minus_emph_style ==
            Style_from_str(o.minus_emph_style, None,
                Some(get_minus_emph_background_color_default(light, is_true_color)),
                is_true_color, TRUE)
        minus_non_emph_style ==
            Style_from_str(o.minus_non_emph_style,
                minus_style.foreground, minus_style.background,
                is_true_color, FALSE)
        zero_style ==
            Style_from_str(o.zero_style, None, None, is_true_color, FALSE)
        plus_style ==
            Style_from_str(o.plus_style, None,
                Some(get_plus_background_color_default(light, is_true_color)),
                is_true_color, FALSE)
        plus_emph_style ==
            Style_from_str(o.plus_emph_style, None,
                Some(get_plus_emph_background_color_default(light, is_true_color)),
                is_true_color, TRUE)
        plus_non_emph_style ==
            Style_from_str(o.plus_non_emph_style,
                plus_style.foreground, plus_style.background,
                is_true_color, FALSE)
    IN  [minus_style          |-> minus_style,
         minus_emph_style     |-> minus_emph_style,
         minus_non_emph_style |-> minus_non_emph_style,
         zero_style           |-> zero_style,
         plus_style           |-> plus_style,
         plus_emph_style      |-> plus_emph_style,
         plus_non_emph_style  |-> plus_non_emph_style]

\* let syntax_theme = ...: Some(Option<theme>) or None when indexing the
\* catalogue with a name it does not hold panics.
load_syntax_theme(name, themes) ==
    IF is_no_syntax_highlighting_theme_name(name)
    THEN Some(None)
    ELSE IF name \in themes
         THEN Some(Some([name |-> name]))
         ELSE None

(***************************************************************************)
(* The inputs explored.                                                    *)
(***************************************************************************)
SyntaxThemeArgs ==
    {None, Some("GitHub"), Some("1337"), Some("None"), Some("NoSuchTheme")}

TriStateArgs == {"always", "never", "auto", "sometimes"}

WidthArgs ==
    {None, Some("variable"), Some("wide"), Some("-1")}
        \cup {Some(ToString(n)) : n \in 0..MaxWidth}

RegexArgs == {"\\w+", "(["}

ColortermValues == {None, Some("truecolor"), Some("24bit"), Some("256color")}

BatThemeValues ==
    {None, Some(""), Some("GitHub"), Some("1337"), Some("<@@@@@>"), Some("none")}

TermColumns == 0..MaxCols

NoColors == [foreground |-> None, background |-> None]

\* The style specs naming no colour, the foreground fg, the background bg, both.
StyleSpecs(fg, bg) ==
    [foreground : {None, Some(fg)}, background : {None, Some(bg)}]

\* The style specs naming no colour, or the background bg.
BackgroundSpecs(bg) ==
    [foreground : {None}, background : {None, Some(bg)}]

\* Every combination of the validated options; the hunk style specs name no colour.
ValidationOpts ==
    [light : BOOLEAN, dark : BOOLEAN,
     syntax_theme : SyntaxThemeArgs,
     paging_mode : TriStateArgs,
     true_color : TriStateArgs,
     width : WidthArgs,
     tokenization_regex : RegexArgs,
     minus_style : {NoColors}, minus_emph_style : {NoColors},
     minus_non_emph_style : {NoColors}, zero_style : {NoColors},
     plus_style : {NoColors}, plus_emph_style : {NoColors},
     plus_non_emph_style : {NoColors}]

\* Every combination of the hunk style specs, under each mode flag, theme
\* and true-color option; the paging mode, width and pattern take one value.
StyleOpts ==
    [light : BOOLEAN, dark : BOOLEAN,
     syntax_theme : {None, Some("GitHub")},
     paging_mode : {"auto"},
     true_color : {"always", "never"},
     width : {Some("variable")},
     tokenization_regex : {"\\w+"},
     minus_style : StyleSpecs("red", "maroon"),
     minus_emph_style : BackgroundSpecs("crimson"),
     minus_non_emph_style : StyleSpecs("pink", "brown"),
     zero_style : {NoColors},
     plus_style : StyleSpecs("green", "olive"),
     plus_emph_style : BackgroundSpecs("lime"),
     plus_non_emph_style : StyleSpecs("teal", "navy")]

(***************************************************************************)
(* Config::from, step by step.                                             *)
(***************************************************************************)
InitWith(opts) ==
    /\ opt \in opts
    /\ pc = "check_validity"
    /\ exit_status = None
    /\ stderr = <<>>
    /\ paging_mode = None
    /\ colorterm = None
    /\ true_color = None
    /\ term_cols = None
    /\ available_terminal_width = None
    /\ decorations_width = None
    /\ background_color_extends_to_terminal_width = None
    /\ bat_theme = None
    /\ is_light_mode = None
    /\ syntax_theme_name = None
    /\ hunk_styles = None
    /\ syntax_theme = None
    /\ config = None

Init == InitWith(ValidationOpts)

InitStyles == InitWith(StyleOpts)

\* eprintln!(message); process::exit(1)
Exit(message) ==
    /\ pc' = "exited"
    /\ exit_status' = Some(1)
    /\ stderr' = Append(stderr, message)

\* A panic: the message goes to the error stream, the status is 101.
Panic(message) ==
    /\ pc' = "panicked"
    /\ exit_status' = Some(101)
    /\ stderr' = Append(stderr, message)

\* _check_validity(&opt, &assets)
CheckValidity ==
    /\ pc = "check_validity"
    /\ LET error == check_validity(opt, ThemeCatalogue) IN
       IF IsSome(error)
       THEN Exit(Unwrap(error))
       ELSE pc' = "paging_mode" /\ UNCHANGED <<exit_status, stderr>>
    /\ UNCHANGED <<opt, paging_mode, colorterm, true_color, term_cols,
                   available_terminal_width, decorations_width,
                   background_color_extends_to_terminal_width, bat_theme,
                   is_light_mode, syntax_theme_name, hunk_styles, syntax_theme,
                   config>>

\* let paging_mode = match opt.paging_mode.as_ref() { ... }
ResolvePagingMode ==
    /\ pc = "paging_mode"
    /\ LET mode == match_paging_mode(opt.paging_mode) IN
       IF IsSome(mode)
       THEN /\ paging_mode' = mode
            /\ pc' = "true_color"
            /\ UNCHANGED <<exit_status, stderr>>
       ELSE /\ Exit("Invalid value for --paging option")
            /\ UNCHANGED paging_mode
    /\ UNCHANGED <<opt, colorterm, true_color, term_cols,
                   available_terminal_width, decorations_width,
                   background_color_extends_to_terminal_width, bat_theme,
                   is_light_mode, syntax_theme_name, hunk_styles, syntax_theme,
                   config>>

\* let true_color = match opt.true_color.as_ref() { ... }; COLORTERM is read
\* only in the "auto" arm.
ResolveTrueColor ==
    /\ pc = "true_color"
    /\ \E env_value \in ColortermValues :
          /\ opt.true_color # "auto" => env_value = None
          /\ colorterm' = IF opt.true_color = "auto" THEN Some(env_value) ELSE None
          /\ LET value == match_true_color(opt.true_color, env_value) IN
             IF IsSome(value)
             THEN /\ true_color' = value
                  /\ pc' = "width"
                  /\ UNCHANGED <<exit_status, stderr>>
             ELSE /\ Exit("Invalid value for --24-bit-color option")
                  /\ UNCHANGED true_color
    /\ UNCHANGED <<opt, paging_mode, term_cols,
                   available_terminal_width, decorations_width,
                   background_color_extends_to_terminal_width, bat_theme,
                   is_light_mode, syntax_theme_name, hunk_styles, syntax_theme,
                   config>>

\* The match on opt.width, once available_terminal_width is known.
WidthFrom(columns, available) ==
    /\ term_cols' = Some(columns)
    /\ LET result == match_width(opt.width, available) IN
       IF IsSome(result)
       THEN /\ available_terminal_width' = Some(available)
            /\ decorations_width' = Some(Unwrap(result)[1])
            /\ background_color_extends_to_terminal_width' = Some(Unwrap(result)[2])
            /\ pc' = "theme"
            /\ UNCHANGED <<exit_status, stderr>>
       ELSE /\ Exit("Could not parse width as a positive integer")
            /\ available_terminal_width' = Some(available)
            /\ UNCHANGED <<decorations_width,
                           background_color_extends_to_terminal_width>>

\* let available_terminal_width = (Term::stdout().size().1 - 1) as usize;
\* let (decorations_width, background_color_extends_to_terminal_width) = ...
\* The u16 subtraction of 1 from 0 columns panics in a build with overflow
\* checks and wraps in a build without them.
ResolveWidth ==
    /\ pc = "width"
    /\ \E columns \in TermColumns :
          \/ /\ columns >= 1
             /\ WidthFrom(columns, columns - 1)
          \/ /\ columns = 0
             /\ WidthFrom(columns, WrappingSubU16(columns, 1))
          \/ /\ columns = 0
             /\ term_cols' = Some(columns)
             /\ Panic("attempt to subtract with overflow")
             /\ UNCHANGED <<available_terminal_width, decorations_width,
                            background_color_extends_to_terminal_width>>
    /\ UNCHANGED <<opt, paging_mode, colorterm, true_color, bat_theme,
                   is_light_mode, syntax_theme_name, hunk_styles, syntax_theme,
                   config>>

\* Mutant of ResolveTheme: the first two arguments of the call, both
\* Option<&String>, are swapped.
ResolveThemeArgumentsSwapped ==
    /\ pc = "theme"
    /\ \E env_value \in BatThemeValues :
          /\ bat_theme' = Some(env_value)
          /\ LET resolved == get_is_light_mode_and_theme_name(
                                 env_value, opt.syntax_theme, opt.light, ThemeCatalogue)
             IN  /\ is_light_mode' = Some(resolved[1])
                 /\ syntax_theme_name' = Some(resolved[2])
    /\ pc' = "hunk_styles"
    /\ UNCHANGED <<opt, exit_status, stderr, paging_mode, colorterm, true_color,
                   term_cols, available_terminal_width, decorations_width,
                   background_color_extends_to_terminal_width, hunk_styles,
                   syntax_theme, config>>

\* let syntax_theme_name_from_bat_theme = env::get_env_var("BAT_THEME");
\* let (is_light_mode, syntax_theme_name) = get_is_light_mode_and_theme_name(...)
ResolveTheme ==
    /\ pc = "theme"
    /\ \E env_value \in BatThemeValues :
          /\ bat_theme' = Some(env_value)
          /\ LET resolved == get_is_light_mode_and_theme_name(
                                 opt.syntax_theme, env_value, opt.light, ThemeCatalogue)
             IN  /\ is_light_mode' = Some(resolved[1])
                 /\ syntax_theme_name' = Some(resolved[2])
    /\ pc' = "hunk_styles"
    /\ UNCHANGED <<opt, exit_status, stderr, paging_mode, colorterm, true_color,
                   term_cols, available_terminal_width, decorations_width,
                   background_color_extends_to_terminal_width, hunk_styles,
                   syntax_theme, config>>

\* let (minus_style, ...) = make_hunk_styles(&opt, is_light_mode, true_color);
MakeHunkStyles ==
    /\ pc = "hunk_styles"
    /\ hunk_styles' = Some(make_hunk_styles(opt, Unwrap(is_light_mode), Unwrap(true_color)))
    /\ pc' = "syntax_theme"
    /\ UNCHANGED <<opt, exit_status, stderr, paging_mode, colorterm, true_color,
                   term_cols, available_terminal_width, decorations_width,
                   background_color_extends_to_terminal_width, bat_theme,
                   is_light_mode, syntax_theme_name, syntax_theme, config>>

\* let syntax_theme = if is_no_syntax_highlighting_theme_name(..) { None }
\*                    else { Some(assets.theme_set.themes[&syntax_theme_name].clone()) };
LoadSyntaxTheme ==
    /\ pc = "syntax_theme"
    /\ LET loaded == load_syntax_theme(Unwrap(syntax_theme_name), ThemeCatalogue) IN
       IF IsSome(loaded)
       THEN /\ syntax_theme' = loaded
            /\ pc' = "tokenization_regex"
            /\ UNCHANGED <<exit_status, stderr>>
       ELSE /\ Panic("no entry found for key")
            /\ UNCHANGED syntax_theme
    /\ UNCHANGED <<opt, paging_mode, colorterm, true_color,
                   term_cols, available_terminal_width, decorations_width,
                   background_color_extends_to_terminal_width, bat_theme,
                   is_light_mode, syntax_theme_name, hunk_styles, config>>

\* The Config of the struct expression `Self { ... }`.
AssembleConfig ==
    [background_color_extends_to_terminal_width |->
         Unwrap(background_color_extends_to_terminal_width),
     decorations_width    |-> Unwrap(decorations_width),
     minus_emph_style     |-> Unwrap(hunk_styles).minus_emph_style,
     minus_non_emph_style |-> Unwrap(hunk_styles).minus_non_emph_style,
     minus_style          |-> Unwrap(hunk_styles).minus_style,
     paging_mode          |-> Unwrap(paging_mode),
     plus_emph_style      |-> Unwrap(hunk_styles).plus_emph_style,
     plus_non_emph_style  |-> Unwrap(hunk_styles).plus_non_emph_style,
     plus_style           |-> Unwrap(hunk_styles).plus_style,
     syntax_theme         |-> Unwrap(syntax_theme),
     syntax_theme_name    |-> Unwrap(syntax_theme_name),
     tokenization_regex   |-> opt.tokenization_regex,
     true_color           |-> Unwrap(true_color),
     zero_style           |-> Unwrap(hunk_styles).zero_style]

\* let tokenization_regex = Regex::new(..).unwrap_or_else(..); Self { ... }
CompileRegex ==
    /\ pc = "tokenization_regex"
    /\ IF RegexIsValid(opt.tokenization_regex)
       THEN /\ config' = Some(AssembleConfig)
            /\ pc' = "returned"
            /\ UNCHANGED <<exit_status, stderr>>
       ELSE /\ Exit("Invalid word-diff-regex")
            /\ UNCHANGED config
    /\ UNCHANGED <<opt, paging_mode, colorterm, true_color,
                   term_cols, available_terminal_width, decorations_width,
                   background_color_extends_to_terminal_width, bat_theme,
                   is_light_mode, syntax_theme_name, hunk_styles, syntax_theme>>

Next ==
    \/ CheckValidity
    \/ ResolvePagingMode
    \/ ResolveTrueColor
    \/ ResolveWidth
    \/ ResolveTheme
    \/ MakeHunkStyles
    \/ LoadSyntaxTheme
    \/ CompileRegex

Spec == Init /\ [][Next]_vars

SpecStyles == InitStyles /\ [][Next]_vars

(***************************************************************************)
(* Vocabulary of the properties.                                           *)
(***************************************************************************)
Terminated == pc \in {"returned", "exited", "panicked"}

ConflictingModeFlags == "--light and --dark cannot be used together."

LightThemeWithDark == "is a light syntax theme, but you supplied --dark."

DarkThemeWithLight == "is a dark syntax theme, but you supplied --light."

InvalidPagingMode == "Invalid value for --paging option"

InvalidTrueColor == "Invalid value for --24-bit-color option"

InvalidWidth == "Could not parse width as a positive integer"

InvalidPattern == "Invalid word-diff-regex"

\* The process has exited with status 1 having written exactly `message`.
ExitedWith(message) ==
    /\ pc = "exited"
    /\ exit_status = Some(1)
    /\ stderr = <<message>>
    /\ config = None

\* No local of Config::from has been assigned.
NothingResolved ==
    /\ paging_mode = None /\ true_color = None /\ decorations_width = None
    /\ is_light_mode = None /\ syntax_theme_name = None /\ hunk_styles = None
    /\ syntax_theme = None /\ config = None

ExplicitTheme == IsSome(opt.syntax_theme)

ExplicitCatalogueTheme ==
    /\ ExplicitTheme
    /\ ~is_no_syntax_highlighting_theme_name(Unwrap(opt.syntax_theme))
    /\ Unwrap(opt.syntax_theme) \in ThemeCatalogue

ExplicitUnknownTheme ==
    /\ ExplicitTheme
    /\ ~is_no_syntax_highlighting_theme_name(Unwrap(opt.syntax_theme))
    /\ Unwrap(opt.syntax_theme) \notin ThemeCatalogue

TriStateValues == {"always", "never", "auto"}

(***************************************************************************)
(* C1: whenever both the light flag and the dark flag are set, Config::from*)
(* is fatal: after _check_validity the process has exited with status 1,   *)
(* having written the conflicting-flags message, with nothing resolved and *)
(* no Config, whatever the theme, paging, true-color, width and pattern    *)
(* options are.                                                            *)
(***************************************************************************)
C1_ConflictingFlagsFatal ==
    (opt.light /\ opt.dark) =>
        \/ pc = "check_validity"
        \/ ExitedWith(ConflictingModeFlags) /\ NothingResolved

\* Both flags with a dark catalogue theme and otherwise valid options: exited.
C1_Witness ==
    /\ opt.light /\ opt.dark
    /\ opt.syntax_theme = Some("1337")
    /\ opt.paging_mode = "auto" /\ opt.true_color = "auto"
    /\ opt.width = None /\ RegexIsValid(opt.tokenization_regex)
    /\ ExitedWith(ConflictingModeFlags)

\* The theme's classification and the one flag set disagree.
C2_Mismatch ==
    LET light_theme == is_light_theme(Unwrap(opt.syntax_theme)) IN
    (light_theme /\ opt.dark) \/ (~light_theme /\ opt.light)

(***************************************************************************)
(* C2: for an explicit theme of the catalogue that is not the sentinel,    *)
(* _check_validity is fatal (exit 1) exactly when the theme is Light and   *)
(* the dark flag is set or the theme is Dark and the light flag is set;    *)
(* the message is the theme/mode mismatch one unless both flags are set    *)
(* (then it is the conflicting-flags one of C1); in every other case the   *)
(* check passes and the resolved mode equals the theme's classification.   *)
(***************************************************************************)
C2_ThemeModeMismatch ==
    (ExplicitCatalogueTheme /\ pc # "check_validity") =>
        LET light_theme == is_light_theme(Unwrap(opt.syntax_theme))
            fatal == /\ pc = "exited"
                     /\ stderr[1] \in {ConflictingModeFlags, LightThemeWithDark,
                                       DarkThemeWithLight}
        IN  /\ fatal <=> C2_Mismatch
            /\ fatal => /\ exit_status = Some(1)
                        /\ NothingResolved
                        /\ stderr = <<IF opt.light /\ opt.dark THEN ConflictingModeFlags
                                      ELSE IF light_theme THEN LightThemeWithDark
                                      ELSE DarkThemeWithLight>>
            /\ IsSome(is_light_mode) => Unwrap(is_light_mode) = light_theme

\* A Light theme with the dark flag alone has been refused.
C2_Witness ==
    /\ opt.syntax_theme = Some("GitHub")
    /\ opt.dark /\ ~opt.light
    /\ ExitedWith(LightThemeWithDark)

\* The options other than the theme are valid, on a terminal of one column or more.
OtherInputsValid ==
    /\ ~(opt.light /\ opt.dark)
    /\ opt.paging_mode \in TriStateValues
    /\ opt.true_color \in TriStateValues
    /\ (opt.width = None \/ opt.width = Some("variable")
        \/ (IsSome(opt.width) /\ IsSome(ParseUsize(Unwrap(opt.width)))))
    /\ RegexIsValid(opt.tokenization_regex)
    /\ (IsSome(term_cols) => Unwrap(term_cols) >= 1)

(***************************************************************************)
(* C3: an explicit theme name that is absent from the catalogue and is not *)
(* the sentinel is accepted: when every other input is valid, the run ends *)
(* returning a Config whose theme name is the raw name and whose mode is   *)
(* Light if the light flag is set and Dark otherwise; it does not end      *)
(* abnormally because the name is unknown.                                 *)
(***************************************************************************)
C3_UnknownThemeAccepted ==
    (ExplicitUnknownTheme /\ OtherInputsValid /\ Terminated) =>
        /\ pc = "returned"
        /\ IsSome(config)
        /\ Unwrap(config).syntax_theme_name = Unwrap(opt.syntax_theme)
        /\ is_light_mode = Some(opt.light)

\* The resolved name is `expected`, and so are a returned Config's name and theme.
C4_NameAndThemeAre(expected) ==
    /\ IsSome(syntax_theme_name) => Unwrap(syntax_theme_name) = expected
    /\ IsSome(config) =>
          /\ Unwrap(config).syntax_theme_name = expected
          /\ Unwrap(config).syntax_theme =
                 IF is_no_syntax_highlighting_theme_name(expected)
                 THEN None
                 ELSE Some([name |-> expected])

\* The built-in default theme the light flag selects.
C4_Default == IF opt.light THEN DEFAULT_LIGHT_THEME ELSE DEFAULT_DARK_THEME

(***************************************************************************)
(* C4: theme-name precedence.  As claimed: an explicit name is the         *)
(* resolved name whatever BAT_THEME holds; without one the resolved name   *)
(* is BAT_THEME's value if it is present and non-empty, and otherwise the  *)
(* default light theme under the light flag and the default dark theme     *)
(* without it.  A returned Config holds the catalogue entry of the         *)
(* resolved name, and no theme when the name is the sentinel.              *)
(***************************************************************************)
C4_EnvironmentNameAsClaimed ==
    IsSome(bat_theme) =>
        C4_NameAndThemeAre(
            IF ExplicitTheme THEN Unwrap(opt.syntax_theme)
            ELSE IF IsSome(Unwrap(bat_theme)) /\ Unwrap(Unwrap(bat_theme)) # ""
                 THEN Unwrap(Unwrap(bat_theme))
                 ELSE C4_Default)

(***************************************************************************)
(* C4, amended: without an explicit name the resolved name is BAT_THEME's  *)
(* value only if that value is a catalogue entry or the sentinel; any      *)
(* other value (empty, or a name the catalogue does not hold) gives the    *)
(* default theme of the light flag.  The rest is as claimed.               *)
(***************************************************************************)
C4_ThemeNamePrecedence ==
    IsSome(bat_theme) =>
        C4_NameAndThemeAre(
            IF ExplicitTheme THEN Unwrap(opt.syntax_theme)
            ELSE IF /\ IsSome(Unwrap(bat_theme))
                    /\ \/ Unwrap(Unwrap(bat_theme)) \in ThemeCatalogue
                       \/ Unwrap(Unwrap(bat_theme)) \in {"none", "None"}
                 THEN Unwrap(Unwrap(bat_theme))
                 ELSE C4_Default)

\* BAT_THEME names no catalogue entry, the light flag is set, and the Config
\* returned holds the default light theme (the row of the test at line 543).
C4_Witness ==
    /\ ~ExplicitTheme
    /\ opt.light
    /\ bat_theme = Some(Some("<@@@@@>"))
    /\ pc = "returned"
    /\ Unwrap(config).syntax_theme_name = DEFAULT_LIGHT_THEME
    /\ Unwrap(config).syntax_theme = Some([name |-> DEFAULT_LIGHT_THEME])

(***************************************************************************)
(* C5: every run of Config::from ends either returning a Config or with    *)
(* exit status 1 after a message on the error stream, never otherwise; an  *)
(* invalid tokenization pattern always ends in exit status 1 without a     *)
(* Config.                                                                 *)
(***************************************************************************)
C5_ConfigOrExitOne ==
    Terminated =>
        /\ \/ pc = "returned" /\ IsSome(config) /\ exit_status = None
           \/ /\ pc = "exited" /\ exit_status = Some(1)
              /\ Len(stderr) = 1 /\ config = None
        /\ ~RegexIsValid(opt.tokenization_regex) =>
               exit_status = Some(1) /\ config = None

\* The width and fill resolved are those the width option asks for on `columns` columns.
C6_WidthIs(columns) ==
    LET width == Unwrap(decorations_width)
        fill == Unwrap(background_color_extends_to_terminal_width)
    IN  /\ opt.width = Some("variable") =>
               width = Width_Variable /\ fill = FALSE
        /\ \A n \in 0..MaxWidth :
               opt.width = Some(ToString(n)) =>
                   width = Width_Fixed(Min(n, columns - 1)) /\ fill = TRUE
        /\ opt.width = None =>
               width = Width_Fixed(columns - 1) /\ fill = TRUE

(***************************************************************************)
(* C6: width resolution on a terminal of C columns: "variable" gives       *)
(* Width::Variable without fill; a numeric n gives Fixed(min(n, C - 1))    *)
(* with fill; no option gives Fixed(C - 1) with fill.                      *)
(***************************************************************************)
C6_WidthResolution ==
    IsSome(decorations_width) => C6_WidthIs(Unwrap(term_cols))

\* The same on the terminals of one column or more, where it holds.
C6_WidthResolutionFromOneColumn ==
    (IsSome(decorations_width) /\ Unwrap(term_cols) >= 1) =>
        C6_WidthIs(Unwrap(term_cols))

\* The width option is a positive integer.
C7_PositiveInteger(width) ==
    \E n \in 1..MaxWidth : width = Some(ToString(n))

(***************************************************************************)
(* C7: in every Config returned a Width::Fixed value is positive and at    *)
(* most (terminal columns - 1), for every column count including 0 and 1;  *)
(* a width option that is neither "variable" nor a positive integer ("0",  *)
(* a negative number, other text) is fatal: exit 1, no Config.             *)
(***************************************************************************)
C7_FixedWidthPositiveAndBounded ==
    /\ (IsSome(config) /\ Unwrap(config).decorations_width.tag = "Fixed") =>
           /\ Unwrap(config).decorations_width.value >= 1
           /\ Unwrap(config).decorations_width.value <= Unwrap(term_cols) - 1
    /\ (IsSome(opt.width) /\ opt.width # Some("variable")
        /\ ~C7_PositiveInteger(opt.width)) =>
           /\ decorations_width = None
           /\ config = None
           /\ IsSome(available_terminal_width) => ExitedWith(InvalidWidth)

\* The background a style spec resolves to, given the category's default.
C8_Background(style_string, default) ==
    IF IsSome(style_string.background)
    THEN Some(NamedColor(Unwrap(style_string.background), Unwrap(true_color)))
    ELSE Some(default)

C8_BackgroundsOf(styles) ==
    LET light == get_is_light_mode_and_theme_name(
                     opt.syntax_theme, Unwrap(bat_theme), opt.light, ThemeCatalogue)[1]
        rgb == Unwrap(true_color)
    IN  /\ styles.minus_style.background =
               C8_Background(opt.minus_style,
                             <<"default", "minus", BoolStr(light), BoolStr(rgb)>>)
        /\ styles.minus_emph_style.background =
               C8_Background(opt.minus_emph_style,
                             <<"default", "minus_emph", BoolStr(light), BoolStr(rgb)>>)
        /\ styles.plus_style.background =
               C8_Background(opt.plus_style,
                             <<"default", "plus", BoolStr(light), BoolStr(rgb)>>)
        /\ styles.plus_emph_style.background =
               C8_Background(opt.plus_emph_style,
                             <<"default", "plus_emph", BoolStr(light), BoolStr(rgb)>>)

(***************************************************************************)
(* C8: for minus, minus-emph, plus and plus-emph: a style spec that names  *)
(* no background resolves to the category's default background for the     *)
(* mode the theme resolver returned and the resolved true-color value; a   *)
(* spec that names a background resolves to the named colour.              *)
(***************************************************************************)
C8_DefaultBackgrounds ==
    /\ IsSome(hunk_styles) => C8_BackgroundsOf(Unwrap(hunk_styles))
    /\ IsSome(config) => C8_BackgroundsOf(Unwrap(config))

\* A Config in Light mode (by the theme, no flag) where minus has its default
\* background and plus-emph a named one.
C8_Witness ==
    /\ pc = "returned"
    /\ opt.syntax_theme = Some("GitHub") /\ ~opt.light
    /\ opt.minus_style.background = None
    /\ opt.plus_emph_style.background = Some("lime")
    /\ Unwrap(config).minus_style.background =
           Some(get_minus_background_color_default(TRUE, Unwrap(true_color)))
    /\ Unwrap(config).plus_emph_style.background =
           Some(NamedColor("lime", Unwrap(true_color)))

\* A colour named in a spec, or else the fallback.
C9_Color(named, fallback) ==
    IF IsSome(named)
    THEN Some(NamedColor(Unwrap(named), Unwrap(true_color)))
    ELSE fallback

C9_FallsBackOn(non_emph, style_string, base, base_string, base_default) ==
    /\ non_emph.foreground = C9_Color(style_string.foreground, base.foreground)
    /\ non_emph.background = C9_Color(style_string.background, base.background)
    /\ base.foreground = C9_Color(base_string.foreground, None)
    /\ base.background = C9_Color(base_string.background, Some(base_default))

C9_NonEmphOf(styles) ==
    LET light == Unwrap(is_light_mode)
        rgb == Unwrap(true_color)
    IN  /\ C9_FallsBackOn(styles.minus_non_emph_style, opt.minus_non_emph_style,
                          styles.minus_style, opt.minus_style,
                          get_minus_background_color_default(light, rgb))
        /\ C9_FallsBackOn(styles.plus_non_emph_style, opt.plus_non_emph_style,
                          styles.plus_style, opt.plus_style,
                          get_plus_background_color_default(light, rgb))

(***************************************************************************)
(* C9: a non-emphasized style whose spec names no foreground (background)  *)
(* has the resolved foreground (background) of its base style, minus or    *)
(* plus, whether the base took it from its own spec or from its default;   *)
(* never the emphasized style's colour nor the other family's.             *)
(***************************************************************************)
C9_NonEmphFallsBackOnBase ==
    /\ IsSome(hunk_styles) => C9_NonEmphOf(Unwrap(hunk_styles))
    /\ IsSome(config) => C9_NonEmphOf(Unwrap(config))

\* minus-non-emph names a foreground only and minus names none of its own:
\* the non-emphasized background is the default one of minus, while
\* minus-emph has another, named, background.
C9_Witness ==
    /\ pc = "returned"
    /\ opt.minus_non_emph_style = [foreground |-> Some("pink"), background |-> None]
    /\ opt.minus_style = NoColors
    /\ opt.minus_emph_style.background = Some("crimson")
    /\ Unwrap(config).minus_non_emph_style.background =
           Some(get_minus_background_color_default(
                    Unwrap(is_light_mode), Unwrap(true_color)))
    /\ Unwrap(config).minus_non_emph_style.background
           # Unwrap(config).minus_emph_style.background

(***************************************************************************)
(* C10: true-color is a tri-state: "always" gives true and "never" false   *)
(* whatever COLORTERM holds; "auto" gives true exactly when COLORTERM is   *)
(* "truecolor" or "24bit"; any other value is fatal (exit 1, no Config),   *)
(* with the invalid-value message once the earlier checks have passed.     *)
(* The paging mode is validated alike.                                     *)
(***************************************************************************)
C10_TrueColorTriState ==
    /\ IsSome(true_color) =>
           /\ opt.true_color \in TriStateValues
           /\ opt.true_color = "always" => Unwrap(true_color) = TRUE
           /\ opt.true_color = "never" => Unwrap(true_color) = FALSE
           /\ opt.true_color = "auto" =>
                  (Unwrap(true_color) = TRUE
                      <=> colorterm \in {Some(Some("truecolor")), Some(Some("24bit"))})
    /\ IsSome(config) => Unwrap(config).true_color = Unwrap(true_color)
    /\ opt.true_color \notin TriStateValues =>
           /\ true_color = None /\ config = None
           /\ Terminated => pc = "exited" /\ exit_status = Some(1)
           /\ (IsSome(paging_mode) /\ pc # "true_color") => ExitedWith(InvalidTrueColor)
    /\ IsSome(paging_mode) => opt.paging_mode \in TriStateValues
    /\ opt.paging_mode \notin TriStateValues =>
           /\ paging_mode = None /\ config = None
           /\ Terminated => pc = "exited" /\ exit_status = Some(1)
           /\ pc \notin {"check_validity", "paging_mode"} =>
                  \/ ExitedWith(InvalidPagingMode)
                  \/ stderr[1] \in {ConflictingModeFlags, LightThemeWithDark,
                                    DarkThemeWithLight}

\* "auto" with COLORTERM=24bit has resolved to true.
C10_Witness ==
    /\ opt.true_color = "auto"
    /\ colorterm = Some(Some("24bit"))
    /\ true_color = Some(TRUE)
    /\ pc = "returned"


\* The message of the first check that fails on the options, in the order
\* flags, theme/mode, paging mode, true-color, width, pattern; "none" when
\* every check passes.
C11_FirstFailure ==
    IF opt.light /\ opt.dark THEN ConflictingModeFlags
    ELSE IF ExplicitCatalogueTheme /\ C2_Mismatch
         THEN IF is_light_theme(Unwrap(opt.syntax_theme))
              THEN LightThemeWithDark
              ELSE DarkThemeWithLight
    ELSE IF opt.paging_mode \notin TriStateValues THEN InvalidPagingMode
    ELSE IF opt.true_color \notin TriStateValues THEN InvalidTrueColor
    ELSE IF /\ IsSome(opt.width) /\ opt.width # Some("variable")
            /\ ParseUsize(Unwrap(opt.width)) = None
         THEN InvalidWidth
    ELSE IF ~RegexIsValid(opt.tokenization_regex) THEN InvalidPattern
    ELSE "none"

\* The place of that check in the order: 1, 2 (_check_validity), 3 (paging
\* mode), 4 (true-color), 5 (width), 6 (pattern); 7 when every check passes.
C11_Rank ==
    CASE C11_FirstFailure = ConflictingModeFlags -> 1
      [] C11_FirstFailure \in {LightThemeWithDark, DarkThemeWithLight} -> 2
      [] C11_FirstFailure = InvalidPagingMode -> 3
      [] C11_FirstFailure = InvalidTrueColor -> 4
      [] C11_FirstFailure = InvalidWidth -> 5
      [] C11_FirstFailure = InvalidPattern -> 6
      [] OTHER -> 7

\* The checks the run has evaluated so far, by what they leave behind.
C11_PagingEvaluated == IsSome(paging_mode) \/ stderr = <<InvalidPagingMode>>

C11_TrueColorEvaluated ==
    IsSome(true_color) \/ IsSome(colorterm) \/ stderr = <<InvalidTrueColor>>

C11_WidthEvaluated ==
    IsSome(term_cols) \/ IsSome(decorations_width) \/ stderr = <<InvalidWidth>>

C11_PatternEvaluated == IsSome(config) \/ stderr = <<InvalidPattern>>

\* No check after the first failing one has been evaluated, and the hunk
\* styles are resolved only when the first five checks pass.
C11_NothingAfterFirstFailure ==
    /\ C11_Rank < 3 => ~C11_PagingEvaluated
    /\ C11_Rank < 4 => ~C11_TrueColorEvaluated
    /\ C11_Rank < 5 => ~C11_WidthEvaluated
    /\ C11_Rank < 6 => ~C11_PatternEvaluated /\ config = None
    /\ IsSome(hunk_styles) => C11_Rank >= 6

(***************************************************************************)
(* C11: when several inputs are invalid at once the run stops at the first *)
(* failing check of the order conflicting flags, theme/mode mismatch,      *)
(* paging mode, true-color, width, pattern, and reports that error alone:  *)
(* it ends exited with status 1 and that one message; no later check is    *)
(* evaluated, and no hunk style is resolved unless the first five checks   *)
(* have passed.                                                            *)
(***************************************************************************)
C11_FirstFailingCheckOnly ==
    /\ (Terminated /\ C11_Rank <= 6) => ExitedWith(C11_FirstFailure)
    /\ C11_NothingAfterFirstFailure

\* The same for the runs that do not panic, where it holds: the order of the
\* checks is as claimed, and only the panics of lines 185 and 235 come
\* before a failing width or pattern check.
C11_FirstFailingCheckUnlessPanic ==
    /\ (Terminated /\ pc # "panicked" /\ C11_Rank <= 6) =>
           ExitedWith(C11_FirstFailure)
    /\ C11_NothingAfterFirstFailure

\* An invalid paging mode, true-color value, width and pattern together: the
\* run has exited on the paging mode alone.
C11_SeveralInvalidStopsAtFirst ==
    /\ ~opt.light /\ ~opt.dark
    /\ opt.paging_mode = "sometimes" /\ opt.true_color = "sometimes"
    /\ opt.width = Some("wide") /\ ~RegexIsValid(opt.tokenization_regex)
    /\ ExitedWith(InvalidPagingMode)
    /\ NothingResolved

====
